---- MODULE Spec2Model ----
(***************************************************************************)
(* Far::TopologyRefiner (opensubdiv/far/topologyRefiner.cpp): the owner of *)
(* the sequence of Vtr levels and of the refinements between them, its     *)
(* uniform and feature-adaptive refinement drivers, the Catmark            *)
(* feature-adaptive selector and the lazily computed Ptex indices.         *)
(*                                                                         *)
(* Indices: the code's _levels[i] is levels[i+1] here, _refinements[i] is  *)
(* refinements[i+1], face f of a level is face f+1 of its faceVerts.  The  *)
(* argument of GetPtexIndex keeps the code's 0-based numbering.            *)
(***************************************************************************)
EXTENDS Integers, Sequences, FiniteSets, TLC

\* Largest depth asked of RefineUniform / RefineAdaptive.
MaxDepth == 2
\* Largest semi-sharp vertex sharpness of a base mesh.
MaxSharp == 2
\* GetPtexIndex is asked for faces -MaxFaceArg .. MaxFaceArg.
MaxFaceArg == 3

VARIABLES
    subdivType,     \* _subdivType
    isUniform,      \* _isUniform
    maxLevel,       \* _maxLevel
    levels,         \* _levels
    refinements,    \* _refinements
    ptexIndices,    \* _ptexIndices
    outcome,        \* "ok", or "assert" once an assert() has failed
    last,           \* the last public call: [op, arg, flag]
    result,         \* the value the last Ptex query returned
    oob,            \* the last call read outside a vector
    log,            \* the Refinement / Selector calls made by the last call
    cachePhase      \* 0; 1 once Ptex was queried on a loaded base level;
                    \* 2 after a Clear() since; 3 after a load since

vars == <<subdivType, isUniform, maxLevel, levels, refinements, ptexIndices,
          outcome, last, result, oob, log, cachePhase>>

Schemes == {"TYPE_BILINEAR", "TYPE_CATMARK", "TYPE_LOOP"}

Max(a, b) == IF a >= b THEN a ELSE b

Min(a, b) == IF a <= b THEN a ELSE b

(***************************************************************************)
(* Vtr::Level, as far as the refiner reads it: the vertices of each face,  *)
(* one VTag and one sharpness per vertex.  The number of vertices is the   *)
(* length of vtags.                                                        *)
(***************************************************************************)
VTag(inc, xord, semi, nonman, rule) ==
    [incomplete |-> inc, xordinary |-> xord, semiSharp |-> semi,
     nonManifold |-> nonman, rule |-> rule]

\* A default-constructed Level, as vector::resize creates it.
EmptyLevel == [faceVerts |-> <<>>, vtags |-> <<>>, vertSharpness |-> <<>>]

getNumVertices(level) == Len(level.vtags)

getNumFaces(level) == Len(level.faceVerts)

getFaceVertices(level, face) == level.faceVerts[face]

FaceVertSet(fv) == {fv[i] : i \in 1..Len(fv)}

getVertexFaces(level, v) ==
    {f \in 1..getNumFaces(level) : v \in FaceVertSet(level.faceVerts[f])}

\* The composite tag of a face: the bitwise OR of the tags of its vertices.
getFaceCompositeVTag(level, fv) ==
    [incomplete  |-> \E i \in 1..Len(fv) : level.vtags[fv[i]].incomplete,
     xordinary   |-> \E i \in 1..Len(fv) : level.vtags[fv[i]].xordinary,
     semiSharp   |-> \E i \in 1..Len(fv) : level.vtags[fv[i]].semiSharp,
     nonManifold |-> \E i \in 1..Len(fv) : level.vtags[fv[i]].nonManifold,
     rule        |-> UNION {level.vtags[fv[i]].rule : i \in 1..Len(fv)}]

(***************************************************************************)
(* Vtr::SparseSelector: the set of selected parent faces.                  *)
(***************************************************************************)
selectFace(selection, face) == selection \cup {face}

isSelectionEmpty(selection) == selection = {}

(***************************************************************************)
(* TopologyRefiner::catmarkFeatureAdaptiveSelector                         *)
(***************************************************************************)
SelectFaceByTagNoDart(compFaceTag) ==
    IF compFaceTag.xordinary \/ compFaceTag.semiSharp THEN TRUE
    ELSE IF compFaceTag.nonManifold THEN TRUE
    ELSE IF ~("Smooth" \in compFaceTag.rule) THEN TRUE
    ELSE FALSE

\* The if / else-if chain over the composite tag of a quad (selectFace).
SelectFaceByTag(compFaceTag) ==
    IF compFaceTag.xordinary \/ compFaceTag.semiSharp THEN TRUE
    ELSE IF "Dart" \in compFaceTag.rule THEN TRUE
    ELSE IF compFaceTag.nonManifold THEN TRUE
    ELSE IF ~("Smooth" \in compFaceTag.rule) THEN TRUE
    ELSE FALSE

\* The faces selected for a face that is not a quad: every face incident to
\* every vertex of the face.
NonQuadSelectOnlySelf(level, face, selection) == selectFace(selection, face)

NonQuadSelectSkipSelected(level, face, selection) ==
    IF face \in selection THEN selection
    ELSE selection \cup
         UNION {getVertexFaces(level, level.faceVerts[face][i]) :
                   i \in 1..Len(level.faceVerts[face])}

NonQuadSelect(level, face, selection) ==
    LET fVerts == getFaceVertices(level, face)
    IN  selection \cup
        UNION {getVertexFaces(level, fVerts[i]) : i \in 1..Len(fVerts)}

SelectorVisitSpreadQuads(level, face, selection) ==
    IF Len(level.faceVerts[face]) # 4
    THEN NonQuadSelect(level, face, selection)
    ELSE IF getFaceCompositeVTag(level, level.faceVerts[face]).incomplete
         THEN selection
         ELSE IF SelectFaceByTag(
                     getFaceCompositeVTag(level, level.faceVerts[face]))
              THEN NonQuadSelect(level, face, selection)
              ELSE selection

\* One iteration of the loop over the faces.
SelectorVisit(level, face, selection) ==
    LET faceVerts == getFaceVertices(level, face)
    IN  IF Len(faceVerts) # 4
        THEN NonQuadSelect(level, face, selection)
        ELSE LET compFaceTag == getFaceCompositeVTag(level, faceVerts)
             IN  IF compFaceTag.incomplete THEN selection
                 ELSE IF SelectFaceByTag(compFaceTag)
                      THEN selectFace(selection, face)
                      ELSE selection

RECURSIVE SelectorPass(_, _, _)
SelectorPass(level, order, selection) ==
    IF order = <<>> THEN selection
    ELSE SelectorPass(level, Tail(order),
                      SelectorVisit(level, Head(order), selection))

FaceOrder(level) == [i \in 1..getNumFaces(level) |-> i]

catmarkFeatureAdaptiveSelector(level) ==
    SelectorPass(level, FaceOrder(level), {})

(***************************************************************************)
(* Vtr::Refinement::refine: the child level of a parent level.  Every      *)
(* refined face of n vertices gives n quads around its face point.  The    *)
(* child vertices are numbered: one face point per refined face, one       *)
(* vertex point per parent vertex, one edge point per corner of a refined  *)
(* face (the two faces of an edge each get their own).  A vertex point     *)
(* keeps the tag of its parent vertex, its sharpness decremented; a child  *)
(* vertex next to a face that is not refined is incomplete.                *)
(***************************************************************************)
EdgeKey(a, b, n) == Min(a, b) * (n + 1) + Max(a, b)

NextCorner(c, n) == (c % n) + 1

PrevCorner(c, n) == ((c + n - 2) % n) + 1

FaceEdges(fv, n) ==
    {EdgeKey(fv[c], fv[NextCorner(c, Len(fv))], n) : c \in 1..Len(fv)}

FacePointTag(fv) == VTag(FALSE, Len(fv) # 4, FALSE, FALSE, {"Smooth"})

EdgePointTag(inc) == VTag(inc, FALSE, FALSE, FALSE, {"Smooth"})

VertexPointTag(tag, sharpness, inc) ==
    VTag(tag.incomplete \/ inc, tag.xordinary, sharpness > 1, tag.nonManifold,
         IF tag.semiSharp /\ sharpness <= 1 THEN {"Smooth"} ELSE tag.rule)

RECURSIVE RefinedFaces(_, _, _, _)
RefinedFaces(nf, selected, sparse, f) ==
    IF f > nf THEN <<>>
    ELSE IF sparse /\ f \notin selected
         THEN RefinedFaces(nf, selected, sparse, f + 1)
         ELSE <<f>> \o RefinedFaces(nf, selected, sparse, f + 1)

\* The quads of the refined faces fSeq[r..], the edge points of fSeq[r]
\* numbered from epBase + 1.
RECURSIVE ChildFaces(_, _, _, _, _)
ChildFaces(parent, fSeq, r, vpBase, epBase) ==
    IF r > Len(fSeq) THEN <<>>
    ELSE LET fv == parent.faceVerts[fSeq[r]]
             n  == Len(fv)
         IN  [c \in 1..n |->
                <<vpBase + fv[c], epBase + c, r, epBase + PrevCorner(c, n)>>]
             \o ChildFaces(parent, fSeq, r + 1, vpBase, epBase + n)

RECURSIVE EdgePointTags(_, _, _, _)
EdgePointTags(parent, fSeq, r, unrefinedEdges) ==
    IF r > Len(fSeq) THEN <<>>
    ELSE LET fv == parent.faceVerts[fSeq[r]]
             n  == Len(fv)
             nv == getNumVertices(parent)
         IN  [c \in 1..n |->
                EdgePointTag(EdgeKey(fv[c], fv[NextCorner(c, n)], nv)
                             \in unrefinedEdges)]
             \o EdgePointTags(parent, fSeq, r + 1, unrefinedEdges)

ChildLevel(parent, selected, sparse) ==
    LET nv == getNumVertices(parent)
        nf == getNumFaces(parent)
        fSeq == RefinedFaces(nf, selected, sparse, 1)
        nF == Len(fSeq)
        U  == IF sparse THEN (1..nf) \ selected ELSE {}
        UV == UNION {FaceVertSet(parent.faceVerts[f]) : f \in U}
        UE == UNION {FaceEdges(parent.faceVerts[f], nv) : f \in U}
        faces == ChildFaces(parent, fSeq, 1, nF, nF + nv)
        epTags == EdgePointTags(parent, fSeq, 1, UE)
    IN  IF nF = 0 THEN EmptyLevel
        ELSE
        [faceVerts |-> faces,
         vtags |->
            [r \in 1..nF |-> FacePointTag(parent.faceVerts[fSeq[r]])]
            \o [v \in 1..nv |->
                  VertexPointTag(parent.vtags[v], parent.vertSharpness[v],
                                 v \in UV)]
            \o epTags,
         vertSharpness |->
            [i \in 1..(nF + nv + Len(epTags)) |->
               IF nF < i /\ i <= nF + nv
               THEN Max(parent.vertSharpness[i - nF] - 1, 0)
               ELSE 0]]

(***************************************************************************)
(* Base meshes, as a factory loads them into level 0.                      *)
(***************************************************************************)
SmoothTag == VTag(FALSE, FALSE, FALSE, FALSE, {"Smooth"})

Mesh(faceVerts, vtags, sharp) ==
    [faceVerts |-> faceVerts, vtags |-> vtags, vertSharpness |-> sharp]

\* nv smooth vertices, vertex 1 replaced by tag.
TagsWith(nv, tag) == [v \in 1..nv |-> IF v = 1 THEN tag ELSE SmoothTag]

SharpWith(nv, s) == [v \in 1..nv |-> IF v = 1 THEN s ELSE 0]

OneQuad == <<<<1, 2, 3, 4>>>>

TwoQuads == <<<<1, 2, 3, 4>>, <<2, 5, 6, 3>>>>

QuadSmooth == Mesh(OneQuad, TagsWith(4, SmoothTag), SharpWith(4, 0))

QuadSemiSharp(s) ==
    Mesh(OneQuad, TagsWith(4, VTag(FALSE, FALSE, TRUE, FALSE, {"Crease"})),
         SharpWith(4, s))

QuadXord ==
    Mesh(OneQuad, TagsWith(4, VTag(FALSE, TRUE, FALSE, FALSE, {"Smooth"})),
         SharpWith(4, 0))

QuadAllCorner ==
    Mesh(OneQuad,
         [v \in 1..4 |-> VTag(FALSE, FALSE, FALSE, FALSE, {"Corner"})],
         SharpWith(4, 0))

TwoQuadsSemiSharp(s) ==
    Mesh(TwoQuads, TagsWith(6, VTag(FALSE, FALSE, TRUE, FALSE, {"Crease"})),
         SharpWith(6, s))

PentagonQuad ==
    Mesh(<<<<1, 2, 3, 4, 5>>, <<2, 6, 7, 3>>>>, TagsWith(7, SmoothTag),
         SharpWith(7, 0))

QuadHexagon ==
    Mesh(<<<<1, 2, 3, 4>>, <<2, 5, 6, 7, 8, 3>>>>, TagsWith(8, SmoothTag),
         SharpWith(8, 0))

TriangleQuad ==
    Mesh(<<<<1, 2, 3>>, <<2, 4, 5, 3>>>>, TagsWith(5, SmoothTag),
         SharpWith(5, 0))

BaseMeshes ==
    {QuadSmooth, QuadXord, QuadAllCorner, PentagonQuad, QuadHexagon,
     TriangleQuad}
    \cup {QuadSemiSharp(s) : s \in 1..MaxSharp}
    \cup {TwoQuadsSemiSharp(s) : s \in 1..MaxSharp}

(***************************************************************************)
(* Vtr::Refinement, as far as the refiner drives it: the scheme it is      *)
(* bound to, the levels it was initialized with (the code's indices), the  *)
(* parent faces its selector marked and the options of its refine().       *)
(***************************************************************************)
DefaultRefinement ==
    [scheme |-> "unset", parent |-> -1, child |-> -1, selected |-> {},
     refined |-> FALSE, sparse |-> FALSE, faceTopologyOnly |-> FALSE]

RefinementSetScheme(refinement, type) == [refinement EXCEPT !.scheme = type]

RefinementInitialize(refinement, parentIndex, childIndex) ==
    [refinement EXCEPT !.parent = parentIndex, !.child = childIndex,
                       !.selected = {}, !.refined = FALSE]

RefinementRefine(refinement, selected, sparse, faceTopologyOnly) ==
    [refinement EXCEPT !.selected = selected, !.refined = TRUE,
                       !.sparse = sparse,
                       !.faceTopologyOnly = faceTopologyOnly]

\* std::vector::resize
Resize(seq, n, default) ==
    IF n <= Len(seq) THEN SubSeq(seq, 1, n)
    ELSE seq \o [i \in 1..(n - Len(seq)) |-> default]

\* One call of the Refinement or of the Selector, made in iteration i.
Event(op, i, selected, sparse, faceTopologyOnly) ==
    [op |-> op, i |-> i, selected |-> selected, sparse |-> sparse,
     faceTopologyOnly |-> faceTopologyOnly]

Call(op, arg, flag) == [op |-> op, arg |-> arg, flag |-> flag]

\* What an out-of-range read of a vector element may find.
GarbageLevels == BaseMeshes \cup {EmptyLevel}

GarbageInts == {-1, 0, 1}

GarbageVertexCounts == {0, 4}

\* _levels[0], as initializePtexIndices reads it: with no level in the
\* vector the read is out of range.
BaseLevelRead == IF Len(levels) >= 1 THEN {levels[1]} ELSE GarbageLevels

\* _levels[0].getNumVertices(), as the asserts of the drivers read it.
BaseNumVerticesRead ==
    IF Len(levels) >= 1 THEN {getNumVertices(levels[1])}
    ELSE GarbageVertexCounts

(***************************************************************************)
(* TopologyRefiner::TopologyRefiner                                        *)
(***************************************************************************)
Init ==
    /\ subdivType \in Schemes
    /\ isUniform = TRUE
    /\ maxLevel = 0
    /\ levels = Resize(<<>>, 1, EmptyLevel)
    /\ refinements = <<>>
    /\ ptexIndices = <<>>
    /\ outcome = "ok"
    /\ last = Call("TopologyRefiner", 0, FALSE)
    /\ result = 0
    /\ oob = FALSE
    /\ log = <<>>
    /\ cachePhase = 0

(***************************************************************************)
(* The factory's load of the base level into an unrefined refiner.         *)
(***************************************************************************)
LoadBase(mesh) ==
    /\ outcome = "ok"
    /\ levels = <<>> \/ levels = <<EmptyLevel>>
    /\ levels' = <<mesh>>
    /\ last' = Call("LoadBase", 0, FALSE)
    /\ result' = 0
    /\ oob' = FALSE
    /\ log' = <<>>
    /\ cachePhase' = IF cachePhase = 2 THEN 3 ELSE cachePhase
    /\ UNCHANGED <<subdivType, isUniform, maxLevel, refinements, ptexIndices,
                   outcome>>

(***************************************************************************)
(* TopologyRefiner::Unrefine                                               *)
(***************************************************************************)
UnrefineLevelsNoResize(lv) == lv

UnrefineLevels(lv) == IF Len(lv) # 0 THEN Resize(lv, 1, EmptyLevel) ELSE lv

UnrefineRefinementsKeepFirst(rf) == Resize(rf, Min(Len(rf), 1), DefaultRefinement)

UnrefineRefinements(rf) == <<>>

Unrefine ==
    /\ outcome = "ok"
    /\ levels' = UnrefineLevels(levels)
    /\ refinements' = UnrefineRefinements(refinements)
    /\ last' = Call("Unrefine", 0, FALSE)
    /\ result' = 0
    /\ oob' = FALSE
    /\ log' = <<>>
    /\ UNCHANGED <<subdivType, isUniform, maxLevel, ptexIndices, outcome,
                   cachePhase>>

(***************************************************************************)
(* TopologyRefiner::Clear                                                  *)
(***************************************************************************)
ClearLevelsKeepBase(lv) == IF Len(lv) # 0 THEN <<lv[1]>> ELSE lv

ClearLevels(lv) == <<>>

ClearRefinements(rf) == <<>>

ClearPtexIndices(indices) == indices

Clear ==
    /\ outcome = "ok"
    /\ levels' = ClearLevels(levels)
    /\ refinements' = ClearRefinements(refinements)
    /\ ptexIndices' = ClearPtexIndices(ptexIndices)
    /\ last' = Call("Clear", 0, FALSE)
    /\ result' = 0
    /\ oob' = FALSE
    /\ log' = <<>>
    /\ cachePhase' = IF cachePhase \in {1, 3} THEN 2 ELSE cachePhase
    /\ UNCHANGED <<subdivType, isUniform, maxLevel, outcome>>

(***************************************************************************)
(* computePtexIndices, initializePtexIndices, GetNumPtexFaces,             *)
(* GetPtexIndex                                                            *)
(***************************************************************************)
\* Sdc::TypeTraits<SCHEME_TYPE>::RegularFaceValence()
RegularFaceValence(type) == IF type = "TYPE_LOOP" THEN 3 ELSE 4

PtexFaceCountAlwaysOne(size, regular) == 1

\* The increment of ptexID for a face of `size` vertices.
PtexFaceCount(size, regular) == IF size = regular THEN 1 ELSE size

RECURSIVE computePtexLoop(_, _, _, _, _)
computePtexLoop(coarseLevel, regular, i, ptexID, indices) ==
    IF i > getNumFaces(coarseLevel) THEN Append(indices, ptexID)
    ELSE computePtexLoop(coarseLevel, regular, i + 1,
            ptexID + PtexFaceCount(Len(getFaceVertices(coarseLevel, i)),
                                   regular),
            Append(indices, ptexID))

computePtexIndices(coarseLevel, type) ==
    computePtexLoop(coarseLevel, RegularFaceValence(type), 1, 0, <<>>)

\* _ptexIndices after the lazy initialization of a query.
initializePtexIndices(indices, base, type) ==
    IF indices = <<>> THEN computePtexIndices(base, type) ELSE indices

PtexQueryFrame ==
    /\ log' = <<>>
    /\ cachePhase' = IF /\ cachePhase = 0
                        /\ Len(levels) >= 1
                        /\ getNumVertices(levels[1]) > 0
                     THEN 1 ELSE cachePhase
    /\ UNCHANGED <<subdivType, isUniform, maxLevel, levels, refinements,
                   outcome>>

GetNumPtexFaces ==
    /\ outcome = "ok"
    /\ \E base \in BaseLevelRead :
          LET indices == initializePtexIndices(ptexIndices, base, subdivType)
          IN  /\ ptexIndices' = indices
              /\ result' = indices[Len(indices)]
    /\ oob' = (ptexIndices = <<>> /\ Len(levels) = 0)
    /\ last' = Call("GetNumPtexFaces", 0, FALSE)
    /\ PtexQueryFrame

\* The test of line 152: f is below the number of faces of the cache.
PtexInRange(f, indices) == f < Len(indices) - 1

GetPtexIndex(f) ==
    /\ outcome = "ok"
    /\ \E base \in BaseLevelRead :
          LET indices == initializePtexIndices(ptexIndices, base, subdivType)
          IN  /\ ptexIndices' = indices
              /\ IF PtexInRange(f, indices)
                 THEN IF f >= 0
                      THEN /\ result' = indices[f + 1]
                           /\ oob' = (ptexIndices = <<>> /\ Len(levels) = 0)
                      ELSE /\ result' \in GarbageInts
                           /\ oob' = TRUE
                 ELSE /\ result' = -1
                      /\ oob' = (ptexIndices = <<>> /\ Len(levels) = 0)
    /\ last' = Call("GetPtexIndex", f, FALSE)
    /\ PtexQueryFrame

(***************************************************************************)
(* TopologyRefiner::RefineUniform                                          *)
(***************************************************************************)
\* The two asserts at the head of RefineUniform and of RefineAdaptive, on
\* the number of vertices that the read of _levels[0] finds.
AssertsPassAnyScheme(numVertices, type) == numVertices > 0

AssertsPass(numVertices, type) ==
    numVertices > 0 /\ type = "TYPE_CATMARK"

UniformFaceTopologyOnlyNever(i, maxL, fullTopology) == FALSE

\* refineOptions._faceTopologyOnly of iteration i of RefineUniform.
UniformFaceTopologyOnly(i, maxL, fullTopology) ==
    IF fullTopology THEN FALSE ELSE (i = maxL)

\* The hierarchy as a driver's loop carries it.
Hierarchy(lv, rf, ml, lg) ==
    [levels |-> lv, refinements |-> rf, maxLevel |-> ml, log |-> lg]

UniformStepNoRefine(h, i, maxL, fullTopology) ==
    [h EXCEPT !.refinements[i] =
                  RefinementInitialize(
                      RefinementSetScheme(h.refinements[i], subdivType),
                      i - 1, i)]

\* The body of the loop of RefineUniform, iteration i.
UniformStep(h, i, maxL, fullTopology) ==
    LET fto == UniformFaceTopologyOnly(i, maxL, fullTopology)
        bound == RefinementInitialize(
                     RefinementSetScheme(h.refinements[i], subdivType),
                     i - 1, i)
    IN  [h EXCEPT
           !.refinements[i] = RefinementRefine(bound, {}, FALSE, fto),
           !.levels[i + 1] = ChildLevel(h.levels[i], {}, FALSE),
           !.log = h.log \o <<Event("setScheme", i, {}, FALSE, FALSE),
                             Event("initialize", i, {}, FALSE, FALSE),
                             Event("refine", i, {}, FALSE, fto)>>]

RECURSIVE UniformLoop(_, _, _, _)
UniformLoop(h, i, maxL, fullTopology) ==
    IF i > maxL THEN h
    ELSE UniformLoop(UniformStep(h, i, maxL, fullTopology), i + 1, maxL,
                     fullTopology)

UniformResizeLevels(lv, maxL) == Resize(lv, maxL + 1, EmptyLevel)

UniformResizeRefinements(rf, maxL) == Resize(rf, maxL, DefaultRefinement)

RefineUniform(maxL, fullTopology) ==
    /\ outcome = "ok"
    /\ \E numVertices \in BaseNumVerticesRead :
          IF AssertsPass(numVertices, subdivType)
          THEN LET h == UniformLoop(
                          Hierarchy(UniformResizeLevels(levels, maxL),
                                    UniformResizeRefinements(refinements,
                                                             maxL),
                                    maxL, <<>>),
                          1, maxL, fullTopology)
               IN  /\ isUniform' = TRUE
                   /\ maxLevel' = h.maxLevel
                   /\ levels' = h.levels
                   /\ refinements' = h.refinements
                   /\ log' = h.log
                   /\ outcome' = "ok"
          ELSE /\ outcome' = "assert"
               /\ log' = <<>>
               /\ UNCHANGED <<isUniform, maxLevel, levels, refinements>>
    /\ last' = Call("RefineUniform", maxL, fullTopology)
    /\ result' = 0
    /\ oob' = (Len(levels) = 0)
    /\ UNCHANGED <<subdivType, ptexIndices, cachePhase>>

(***************************************************************************)
(* TopologyRefiner::RefineAdaptive                                         *)
(***************************************************************************)
AdaptiveFaceTopologyOnlyFromFlag(fullTopology) == ~fullTopology

\* refineOptions._faceTopologyOnly as refine() receives it: set from
\* fullTopology before the loop, then to false at the head of each iteration.
AdaptiveFaceTopologyOnly(fullTopology) == FALSE

TruncatedMaxLevelOffByOne(i) == i

\* int maxLevel = i - 1, of the iteration whose selection is empty.
TruncatedMaxLevel(i) == i - 1

AdaptiveTruncateNoTrim(h, i) == [h EXCEPT !.maxLevel = TruncatedMaxLevel(i)]

\* The else branch: trim the level and the refinement in progress.
AdaptiveTruncate(h, i) ==
    LET ml == TruncatedMaxLevel(i)
    IN  [h EXCEPT !.maxLevel = ml,
                  !.levels = Resize(h.levels, ml + 1, EmptyLevel),
                  !.refinements = Resize(h.refinements, ml,
                                         DefaultRefinement)]

SelectionWarrantsRefineAlways(selection) == TRUE

\* The test of the selection that decides between refine() and the trim.
SelectionWarrantsRefine(selection) == ~isSelectionEmpty(selection)

\* The body of the loop of RefineAdaptive, iteration i, up to the test of
\* the selection.
AdaptiveSelect(h, i) ==
    [h EXCEPT
       !.refinements[i] =
           [RefinementInitialize(
                RefinementSetScheme(h.refinements[i], subdivType), i - 1, i)
            EXCEPT !.selected = catmarkFeatureAdaptiveSelector(h.levels[i])],
       !.log = h.log \o
               <<Event("setScheme", i, {}, FALSE, FALSE),
                 Event("initialize", i, {}, FALSE, FALSE),
                 Event("selector", i,
                       catmarkFeatureAdaptiveSelector(h.levels[i]),
                       FALSE, FALSE)>>]

AdaptiveRefine(h, i, fullTopology) ==
    LET selected == h.refinements[i].selected
        fto == AdaptiveFaceTopologyOnly(fullTopology)
    IN  [h EXCEPT
           !.refinements[i] =
               RefinementRefine(h.refinements[i], selected, TRUE, fto),
           !.levels[i + 1] = ChildLevel(h.levels[i], selected, TRUE),
           !.log = h.log \o <<Event("refine", i, selected, TRUE, fto)>>]

RECURSIVE AdaptiveLoop(_, _, _, _)
AdaptiveLoop(h, i, subdivLevel, fullTopology) ==
    IF i > subdivLevel THEN h
    ELSE LET s == AdaptiveSelect(h, i)
         IN  IF SelectionWarrantsRefine(s.refinements[i].selected)
             THEN AdaptiveLoop(AdaptiveRefine(s, i, fullTopology), i + 1,
                               subdivLevel, fullTopology)
             ELSE AdaptiveTruncate(s, i)

RefineAdaptive(subdivLevel, fullTopology) ==
    /\ outcome = "ok"
    /\ \E numVertices \in BaseNumVerticesRead :
          IF AssertsPass(numVertices, subdivType)
          THEN LET h == AdaptiveLoop(
                          Hierarchy(
                              Resize(levels, subdivLevel + 1, EmptyLevel),
                              Resize(refinements, subdivLevel,
                                     DefaultRefinement),
                              subdivLevel, <<>>),
                          1, subdivLevel, fullTopology)
               IN  /\ isUniform' = FALSE
                   /\ maxLevel' = h.maxLevel
                   /\ levels' = h.levels
                   /\ refinements' = h.refinements
                   /\ log' = h.log
                   /\ outcome' = "ok"
          ELSE /\ outcome' = "assert"
               /\ log' = <<>>
               /\ UNCHANGED <<isUniform, maxLevel, levels, refinements>>
    /\ last' = Call("RefineAdaptive", subdivLevel, fullTopology)
    /\ result' = 0
    /\ oob' = (Len(levels) = 0)
    /\ UNCHANGED <<subdivType, ptexIndices, cachePhase>>

(***************************************************************************)
(* The refiner under any sequence of calls.                                *)
(***************************************************************************)
Depths == 0..MaxDepth

FaceArgs == (0 - MaxFaceArg)..MaxFaceArg

\* The refinement calls: the drivers never read or write _ptexIndices.
Next ==
    \/ \E mesh \in BaseMeshes : LoadBase(mesh)
    \/ \E d \in Depths, fullTopology \in BOOLEAN :
          RefineUniform(d, fullTopology)
    \/ \E d \in Depths, fullTopology \in BOOLEAN :
          RefineAdaptive(d, fullTopology)
    \/ Unrefine
    \/ Clear

Spec == Init /\ [][Next]_vars

\* The Ptex queries, which read level 0 alone, between loads of the base
\* level and Clear().
NextPtex ==
    \/ \E mesh \in BaseMeshes : LoadBase(mesh)
    \/ Clear
    \/ GetNumPtexFaces
    \/ \E f \in FaceArgs : GetPtexIndex(f)

SpecPtex == Init /\ [][NextPtex]_vars

\* A refiner whose base level the factory has loaded, under Ptex queries
\* alone: level 0 is the input of computePtexIndices and never changes.
InitLoaded ==
    /\ subdivType \in Schemes
    /\ isUniform = TRUE
    /\ maxLevel = 0
    /\ levels \in {<<mesh>> : mesh \in BaseMeshes \cup {EmptyLevel}}
    /\ refinements = <<>>
    /\ ptexIndices = <<>>
    /\ outcome = "ok"
    /\ last = Call("LoadBase", 0, FALSE)
    /\ result = 0
    /\ oob = FALSE
    /\ log = <<>>
    /\ cachePhase = 0

NextQuery ==
    \/ GetNumPtexFaces
    \/ \E f \in FaceArgs : GetPtexIndex(f)

SpecPtexLoaded == InitLoaded /\ [][NextQuery]_vars

(***************************************************************************)
(* The adaptive refinement of one base mesh, over every composite tag a    *)
(* quad can have and over meshes that mix quads with other faces.          *)
(***************************************************************************)
\* The values of the rule mask of a vertex tag.
RuleSets == SUBSET {"Smooth", "Dart", "Crease", "Corner"}

\* One quad whose composite tag is (inc, xord, semi, nonman, rule), the bits
\* spread over its vertices.
TagQuad(inc, xord, semi, nonman, rule) ==
    Mesh(OneQuad,
         <<VTag(inc, xord, FALSE, FALSE, {}),
           VTag(FALSE, FALSE, semi, nonman, {}),
           VTag(FALSE, FALSE, FALSE, FALSE, rule),
           VTag(FALSE, FALSE, FALSE, FALSE, rule)>>,
         [v \in 1..4 |-> IF v = 2 /\ semi THEN 1 ELSE 0])

TagQuads ==
    {TagQuad(inc, xord, semi, nonman, rule) :
        inc \in BOOLEAN, xord \in BOOLEAN, semi \in BOOLEAN,
        nonman \in BOOLEAN, rule \in RuleSets}

\* A pentagon, a triangle on one of its edges, and a quad that touches the
\* triangle at one vertex and the pentagon nowhere.
PentagonTriangleQuad ==
    Mesh(<<<<1, 2, 3, 4, 5>>, <<2, 6, 3>>, <<6, 7, 8, 9>>>>,
         TagsWith(9, SmoothTag), SharpWith(9, 0))

\* Two smooth quads and a triangle that touches only the second.
QuadQuadTriangle ==
    Mesh(<<<<1, 2, 3, 4>>, <<2, 5, 6, 3>>, <<5, 7, 6>>>>,
         TagsWith(7, SmoothTag), SharpWith(7, 0))

SelectorMeshes ==
    TagQuads \cup BaseMeshes \cup {PentagonTriangleQuad, QuadQuadTriangle}

InitSelector ==
    /\ subdivType = "TYPE_CATMARK"
    /\ isUniform = TRUE
    /\ maxLevel = 0
    /\ levels \in {<<mesh>> : mesh \in SelectorMeshes}
    /\ refinements = <<>>
    /\ ptexIndices = <<>>
    /\ outcome = "ok"
    /\ last = Call("LoadBase", 0, FALSE)
    /\ result = 0
    /\ oob = FALSE
    /\ log = <<>>
    /\ cachePhase = 0

NextSelector ==
    \E subdivLevel \in Depths, fullTopology \in BOOLEAN :
        RefineAdaptive(subdivLevel, fullTopology)

SpecSelector == InitSelector /\ [][NextSelector]_vars

(***************************************************************************)
(* Properties                                                              *)
(***************************************************************************)
Refines == {"RefineUniform", "RefineAdaptive"}

PtexQueries == {"GetNumPtexFaces", "GetPtexIndex"}

\* The number of corners of the faces of a level: the number of quads that
\* the refinement of all its faces gives.
RECURSIVE SumOfLengths(_)
SumOfLengths(seqs) ==
    IF seqs = <<>> THEN 0 ELSE Len(Head(seqs)) + SumOfLengths(Tail(seqs))

NumFaceVertices(level) == SumOfLengths(level.faceVerts)

\* The iterations whose refine() the last call invoked, one entry per call.
RefineEvents == SelectSeq(log, LAMBDA e : e.op = "refine")

SelectorEvents == SelectSeq(log, LAMBDA e : e.op = "selector")

\* C1, as claimed: between public operations the number of refinements is
\* the number of levels minus one.  Clear() leaves no level and no
\* refinement, so this fails.
C1_Original == Len(refinements) = Len(levels) - 1

\* C1, amended: between public operations the number of refinements is the
\* number of levels minus one whenever there is a level; with no level
\* (after Clear) there is no refinement either.
C1_LevelsRefinements ==
    Len(refinements) = IF Len(levels) = 0 THEN 0 ELSE Len(levels) - 1

C1_Witness ==
    /\ outcome = "ok"
    /\ last.op = "Unrefine"
    /\ maxLevel = MaxDepth
    /\ Len(levels) = 1
    /\ Len(refinements) = 0

\* C2, as claimed: Unrefine in any reachable state leaves exactly one level,
\* the unchanged base level, and no refinement.  After Clear() there is no
\* level and Unrefine leaves none.
C2_Original ==
    [][last'.op = "Unrefine" =>
         /\ Len(levels') = 1
         /\ Len(levels) >= 1
         /\ levels'[1] = levels[1]
         /\ refinements' = <<>>]_vars

\* C2, amended: Unrefine leaves no refinement; called with at least one
\* level it leaves exactly the base level, unchanged; called with no level
\* it leaves no level.
C2_Unrefine ==
    [][last'.op = "Unrefine" =>
         /\ refinements' = <<>>
         /\ IF Len(levels) >= 1 THEN levels' = <<levels[1]>>
            ELSE levels' = <<>>]_vars

C2_Witness ==
    /\ last.op = "Unrefine"
    /\ maxLevel = MaxDepth
    /\ Len(levels) = 1
    /\ getNumFaces(levels[1]) > 0
    /\ refinements = <<>>

\* C3: RefineAdaptive(depth) stops at the first iteration whose selection
\* over its parent level is empty: on return every iteration up to maxLevel
\* had a non-empty selection and was refined, iteration maxLevel + 1 (if
\* maxLevel < depth) has an empty selection, no later iteration was refined,
\* there are maxLevel + 1 levels and maxLevel refinements, and the hierarchy
\* is not uniform.
C3_AdaptiveTruncation ==
    (last.op = "RefineAdaptive" /\ outcome = "ok") =>
        /\ isUniform = FALSE
        /\ maxLevel \in 0..last.arg
        /\ Len(levels) = maxLevel + 1
        /\ Len(refinements) = maxLevel
        /\ \A i \in 1..maxLevel :
              catmarkFeatureAdaptiveSelector(levels[i]) # {}
        /\ maxLevel < last.arg =>
              catmarkFeatureAdaptiveSelector(levels[maxLevel + 1]) = {}
        /\ Len(RefineEvents) = maxLevel
        /\ \A k \in 1..Len(RefineEvents) : RefineEvents[k].i = k

C3_Witness ==
    /\ last.op = "RefineAdaptive"
    /\ outcome = "ok"
    /\ last.arg = 2
    /\ maxLevel = 1
    /\ Len(levels) = 2
    /\ getNumFaces(levels[2]) > 0

\* C4: RefineUniform(d) returns with d + 1 levels, d refinements and
\* isUniform set; refinement i - 1 is bound to the scheme, to parent level
\* i - 1 and child level i, and level i is the result of its one refine(),
\* which is not sparse and gives a quad for every corner of every parent
\* face; no selector runs.
C4_UniformLevels ==
    (last.op = "RefineUniform" /\ outcome = "ok") =>
        /\ isUniform = TRUE
        /\ Len(levels) = last.arg + 1
        /\ Len(refinements) = last.arg
        /\ Len(RefineEvents) = last.arg
        /\ SelectorEvents = <<>>
        /\ \A i \in 1..last.arg :
              /\ RefineEvents[i].i = i
              /\ RefineEvents[i].sparse = FALSE
              /\ refinements[i].scheme = subdivType
              /\ refinements[i].parent = i - 1
              /\ refinements[i].child = i
              /\ refinements[i].refined
              /\ refinements[i].sparse = FALSE
              /\ getNumFaces(levels[i + 1]) = NumFaceVertices(levels[i])
              /\ \A f \in 1..getNumFaces(levels[i + 1]) :
                    Len(levels[i + 1].faceVerts[f]) = 4

C4_Witness ==
    /\ last.op = "RefineUniform"
    /\ outcome = "ok"
    /\ last.arg = MaxDepth
    /\ Len(levels) = MaxDepth + 1
    /\ getNumFaces(levels[1]) = 2
    /\ getNumFaces(levels[MaxDepth + 1]) > 0

\* What a Ptex query returns when it is computed from the present level 0.
FreshPtexResult(op, f) ==
    LET indices == computePtexIndices(levels[1], subdivType)
    IN  IF op = "GetNumPtexFaces" THEN indices[Len(indices)]
        ELSE IF f < Len(indices) - 1 THEN indices[f + 1]
        ELSE -1

\* C5: once Ptex indices have been queried, Clear() called and a base level
\* loaded, a Ptex query returns the value computed from the new level 0.
\* Clear() leaves _ptexIndices alone, so the query returns the old value.
C5_CacheInvalidated ==
    (/\ cachePhase = 3
     /\ last.op \in PtexQueries
     /\ last.arg >= 0
     /\ Len(levels) >= 1) => result = FreshPtexResult(last.op, last.arg)

\* C6: GetPtexIndex(f) for f outside the faces of level 0, below 0 or at or
\* above their number, returns -1 without reading outside _ptexIndices.
\* The test of line 152 has no lower bound: f < 0 reads _ptexIndices[f].
C6_OutOfRangeSentinel ==
    (/\ last.op = "GetPtexIndex"
     /\ Len(levels) >= 1
     /\ (last.arg < 0 \/ last.arg >= getNumFaces(levels[1])))
    => (result = -1 /\ ~oob)

\* The sum, over the faces before face f (0-based) of a level, of 1 for a
\* face of the regular valence and of the number of vertices otherwise.
RECURSIVE PtexSum(_, _, _)
PtexSum(level, f, regular) ==
    IF f = 0 THEN 0
    ELSE LET size == Len(level.faceVerts[f])
         IN  PtexSum(level, f - 1, regular)
             + (IF size = regular THEN 1 ELSE size)

\* C7: the Ptex index of face f of the base level is the sum over the faces
\* j < f of (1 if j has the regular face valence of the scheme, else its
\* number of vertices); the indices never decrease and GetNumPtexFaces()
\* is the last entry, the sum over all the faces.
C7_PtexPrefixSum ==
    LET nfaces == getNumFaces(levels[1])
        regular == RegularFaceValence(subdivType)
    IN  /\ ptexIndices # <<>> =>
              /\ Len(ptexIndices) = nfaces + 1
              /\ \A f \in 0..nfaces :
                    ptexIndices[f + 1] = PtexSum(levels[1], f, regular)
              /\ \A f \in 1..nfaces : ptexIndices[f] <= ptexIndices[f + 1]
        /\ last.op = "GetNumPtexFaces" =>
              result = PtexSum(levels[1], nfaces, regular)
        /\ (last.op = "GetPtexIndex" /\ 0 <= last.arg /\ last.arg < nfaces)
              => result = PtexSum(levels[1], last.arg, regular)

C7_Witness ==
    /\ last.op = "GetNumPtexFaces"
    /\ subdivType = "TYPE_CATMARK"
    /\ ptexIndices = <<0, 1, 7>>
    /\ result = 7

\* C8: after the selector has run over a parent level, for every face of
\* that level that is not a quad, every face that shares a vertex with it,
\* the face itself included, is selected.
C8_NonQuadClosure ==
    \A k \in 1..Len(SelectorEvents) :
        LET level == levels[SelectorEvents[k].i]
            faces == 1..getNumFaces(level)
        IN  \A f \in faces :
                Len(level.faceVerts[f]) # 4 =>
                    \A g \in faces :
                        FaceVertSet(level.faceVerts[f])
                            \cap FaceVertSet(level.faceVerts[g]) # {}
                        => g \in SelectorEvents[k].selected

C8_Witness ==
    /\ last.op = "RefineAdaptive"
    /\ Len(SelectorEvents) >= 1
    /\ Len(levels[1].faceVerts) = 2
    /\ Len(levels[1].faceVerts[1]) = 5
    /\ Len(levels[1].faceVerts[2]) = 4
    /\ SelectorEvents[1].i = 1
    /\ SelectorEvents[1].selected = {1, 2}

\* C9, as claimed: with the bilinear or the Loop scheme RefineUniform on a
\* base level with vertices runs and gives depth + 1 levels.  The second
\* assert of RefineUniform rejects every scheme but Catmark.
C9_Original ==
    (/\ last.op = "RefineUniform"
     /\ subdivType \in {"TYPE_BILINEAR", "TYPE_LOOP"}
     /\ Len(levels) >= 1
     /\ getNumVertices(levels[1]) > 0)
    => (outcome = "ok" /\ Len(levels) = last.arg + 1)

\* C9, amended: with the bilinear or the Loop scheme RefineUniform and
\* RefineAdaptive both end in the failed assert; with the Catmark scheme
\* and a base level with vertices both run, and RefineUniform gives
\* depth + 1 levels.
C9_SchemeSupport ==
    /\ (last.op \in Refines /\ subdivType # "TYPE_CATMARK")
          => outcome = "assert"
    /\ (/\ last.op \in Refines
        /\ subdivType = "TYPE_CATMARK"
        /\ Len(levels) >= 1
        /\ getNumVertices(levels[1]) > 0) => outcome = "ok"
    /\ (last.op = "RefineUniform" /\ outcome = "ok")
          => Len(levels) = last.arg + 1

C9_Witness ==
    /\ subdivType = "TYPE_BILINEAR"
    /\ last.op = "RefineUniform"
    /\ outcome = "assert"
    /\ Len(levels) = 1
    /\ getNumVertices(levels[1]) > 0

\* C10: a call of RefineUniform or RefineAdaptive with no vertex in level 0
\* (no level 0 at all after Clear), or of RefineAdaptive with a scheme other
\* than Catmark, ends in the failed assert with levels, refinements,
\* isUniform and maxLevel as they were.  With no level the assert reads
\* _levels[0] out of range and may pass.
C10_AssertBeforeModify ==
    [][(/\ last'.op \in Refines
        /\ \/ Len(levels) = 0
           \/ getNumVertices(levels[1]) = 0
           \/ (last'.op = "RefineAdaptive" /\ subdivType # "TYPE_CATMARK"))
       => (/\ outcome' = "assert"
           /\ UNCHANGED <<levels, refinements, isUniform, maxLevel>>)]_vars

\* C11: when RefineAdaptive(d) has returned with maxLevel = m < d, the
\* selection over level m being empty, a further RefineAdaptive(d') with
\* d' >= m on the same hierarchy returns with the same maxLevel, the same
\* levels 0..m and the same refinements 0..m-1, and nothing beyond them.
C11_IdempotentConvergence ==
    [][(/\ last.op = "RefineAdaptive"
        /\ outcome = "ok"
        /\ maxLevel < last.arg
        /\ last'.op = "RefineAdaptive"
        /\ outcome' = "ok"
        /\ last'.arg >= maxLevel) =>
           /\ maxLevel' = maxLevel
           /\ Len(levels') = maxLevel + 1
           /\ Len(refinements') = maxLevel
           /\ \A i \in 1..(maxLevel + 1) : levels'[i] = levels[i]
           /\ \A i \in 1..maxLevel : refinements'[i] = refinements[i]]_vars

\* A converged adaptive hierarchy of one refined level, reached by a call
\* whose depth is the depth of convergence.
C11_Witness ==
    /\ last.op = "RefineAdaptive"
    /\ outcome = "ok"
    /\ last.arg = 1
    /\ maxLevel = 1
    /\ Len(levels) = 2
    /\ catmarkFeatureAdaptiveSelector(levels[2]) = {}

\* C12: whenever RefineUniform or RefineAdaptive has returned, the hierarchy
\* holds exactly levels 0..maxLevel and refinements 0..maxLevel-1, every
\* refinement kept is bound to its parent and child and has been refined,
\* every level 1..maxLevel is the child its refinement's refine() produced
\* from the level before it, and one refine() ran for each of them: no slot
\* that was allocated and initialized but never refined is left.
C12_NoPartialLevel ==
    (last.op \in Refines /\ outcome = "ok") =>
        /\ Len(levels) = maxLevel + 1
        /\ Len(refinements) = maxLevel
        /\ Len(RefineEvents) = maxLevel
        /\ \A i \in 1..Len(refinements) :
              /\ refinements[i].refined
              /\ refinements[i].parent = i - 1
              /\ refinements[i].child = i
              /\ RefineEvents[i].i = i
              /\ levels[i + 1] = ChildLevel(levels[i],
                                            refinements[i].selected,
                                            refinements[i].sparse)

\* An adaptive refinement trimmed below the requested depth whose deepest
\* level is the refined child of level 0.
C12_Witness ==
    /\ last.op = "RefineAdaptive"
    /\ outcome = "ok"
    /\ maxLevel < last.arg
    /\ maxLevel = 1
    /\ refinements[1].refined
    /\ levels[2] = ChildLevel(levels[1], refinements[1].selected, TRUE)
    /\ levels[2] # EmptyLevel

\* C13: Clear, called in any reachable state, leaves no level, the base
\* level included, and no refinement; nothing else has run since while the
\* last call is Clear.
C13_ClearEmpties ==
    /\ [](last.op = "Clear" => (levels = <<>> /\ refinements = <<>>))
    /\ [][last'.op = "Clear" =>
            (Len(levels') = 0 /\ Len(refinements') = 0)]_vars

\* Clear has run on a hierarchy that had been refined to the deepest level.
C13_Witness ==
    /\ last.op = "Clear"
    /\ outcome = "ok"
    /\ maxLevel = MaxDepth
    /\ levels = <<>>
    /\ refinements = <<>>

\* The largest number of faces of a level whose visiting orders are all
\* tried.
MaxPermFaces == 4

\* Every order in which the n faces of a level can be visited.
FaceOrders(n) ==
    {[i \in 1..n |-> p[i]] : p \in Permutations(1..n)}

\* The tags that the claims name as selecting a quad.
SelectingTags(tag) ==
    \/ tag.xordinary
    \/ tag.semiSharp
    \/ "Dart" \in tag.rule
    \/ tag.nonManifold
    \/ "Smooth" \notin tag.rule

\* Face f of the level shares a vertex with a face that is not a quad.
TouchesNonQuad(level, f) ==
    \E g \in 1..getNumFaces(level) :
        /\ Len(level.faceVerts[g]) # 4
        /\ FaceVertSet(level.faceVerts[g])
               \cap FaceVertSet(level.faceVerts[f]) # {}

\* C14: in every selector pass, a 4-vertex face that no non-quad face
\* touches is selected exactly when its composite tag is not incomplete and
\* is extraordinary, or semi-sharp, or has Dart in its rule, or is
\* non-manifold, or has no Smooth in its rule; an incomplete quad is not
\* selected by its own tags.
C14_QuadClassification ==
    \A k \in 1..Len(SelectorEvents) :
        LET level == levels[SelectorEvents[k].i]
            selected == SelectorEvents[k].selected
        IN  \A f \in 1..getNumFaces(level) :
               (Len(level.faceVerts[f]) = 4 /\ ~TouchesNonQuad(level, f)) =>
                   LET tag == getFaceCompositeVTag(level, level.faceVerts[f])
                   IN  /\ (f \in selected) <=>
                              (~tag.incomplete /\ SelectingTags(tag))
                       /\ tag.incomplete => f \notin selected

\* The pass over a base quad whose only selecting tag is Dart (Smooth being
\* in its rule too) selected it, and the pass over its children, which
\* carry the incomplete bit, has run.
C14_Witness ==
    /\ last.op = "RefineAdaptive"
    /\ outcome = "ok"
    /\ Len(SelectorEvents) >= 2
    /\ getNumFaces(levels[1]) = 1
    /\ getFaceCompositeVTag(levels[1], levels[1].faceVerts[1]) =
           VTag(FALSE, FALSE, FALSE, FALSE, {"Smooth", "Dart"})
    /\ SelectorEvents[1].selected = {1}

\* C15: the set a selector pass selects does not depend on the order in
\* which the faces are visited: over the parent level of every pass that
\* ran, the pass in any permutation of the faces, from an empty selection,
\* gives the set the pass that ran gave.
C15_OrderIndependent ==
    \A k \in 1..Len(SelectorEvents) :
        LET level == levels[SelectorEvents[k].i]
        IN  getNumFaces(level) <= MaxPermFaces =>
               \A order \in FaceOrders(getNumFaces(level)) :
                   SelectorPass(level, order, {}) =
                       SelectorEvents[k].selected

\* A pass has run over a level with two non-quad faces and a quad that only
\* one of them touches, and selected all three.
C15_Witness ==
    /\ last.op = "RefineAdaptive"
    /\ outcome = "ok"
    /\ Len(SelectorEvents) >= 1
    /\ levels[1] = PentagonTriangleQuad
    /\ SelectorEvents[1].selected = {1, 2, 3}

\* C16: over the parent level of every selector pass that ran, the visit of
\* a 4-vertex face adds to any selection at most that face and removes
\* nothing, and a 4-vertex face in the set the pass selected that its own
\* tags do not select shares a vertex with a face that is not a quad.
C16_QuadVisitLocal ==
    \A k \in 1..Len(SelectorEvents) :
        LET level == levels[SelectorEvents[k].i]
            selected == SelectorEvents[k].selected
            quads == {f \in 1..getNumFaces(level) :
                          Len(level.faceVerts[f]) = 4}
        IN  /\ getNumFaces(level) <= MaxPermFaces =>
                  \A f \in quads :
                     \A selection \in SUBSET (1..getNumFaces(level)) :
                         /\ selection \subseteq
                                SelectorVisit(level, f, selection)
                         /\ SelectorVisit(level, f, selection) \subseteq
                                selection \cup {f}
            /\ \A f \in quads \cap selected :
                  LET tag == getFaceCompositeVTag(level, level.faceVerts[f])
                  IN  (tag.incomplete \/ ~SelectingTags(tag)) =>
                          TouchesNonQuad(level, f)

\* A pass over two smooth quads and a triangle that touches only the second
\* quad selected the triangle and that quad, and not the first quad.
C16_Witness ==
    /\ last.op = "RefineAdaptive"
    /\ outcome = "ok"
    /\ Len(SelectorEvents) >= 1
    /\ levels[1] = QuadQuadTriangle
    /\ SelectorEvents[1].selected = {2, 3}

\* C17: in a RefineAdaptive that has returned, every refine() of iteration
\* i comes directly after setScheme, initialize and a selector pass of the
\* same iteration, in that order; the refinement is bound to parent level
\* i - 1 and child level i; the pass ran from an empty selection over level
\* i - 1 as it stands, ended with a non-empty selection, and refine() got
\* that selection; and for i > 1 the refine() of iteration i - 1, which
\* completed level i - 1, comes before them.  A pass that ended with an
\* empty selection is the last event of the call.
C17_AdaptiveSequential ==
    (last.op = "RefineAdaptive" /\ outcome = "ok") =>
        \A p \in 1..Len(log) :
            /\ log[p].op = "refine" =>
                  /\ p >= 4
                  /\ log[p - 3].op = "setScheme" /\ log[p - 3].i = log[p].i
                  /\ log[p - 2].op = "initialize" /\ log[p - 2].i = log[p].i
                  /\ log[p - 1].op = "selector" /\ log[p - 1].i = log[p].i
                  /\ log[p - 1].selected # {}
                  /\ log[p - 1].selected = log[p].selected
                  /\ log[p - 1].selected =
                         SelectorPass(levels[log[p].i],
                                      FaceOrder(levels[log[p].i]), {})
                  /\ refinements[log[p].i].parent = log[p].i - 1
                  /\ refinements[log[p].i].child = log[p].i
                  /\ IF log[p].i = 1 THEN p = 4
                     ELSE /\ log[p - 4].op = "refine"
                          /\ log[p - 4].i = log[p].i - 1
            /\ (log[p].op = "selector" /\ log[p].selected = {}) =>
                  p = Len(log)

\* Two iterations have refined, one after the other.
C17_Witness ==
    /\ last.op = "RefineAdaptive"
    /\ outcome = "ok"
    /\ Len(log) >= 8
    /\ log[4].op = "refine" /\ log[4].i = 1
    /\ log[8].op = "refine" /\ log[8].i = 2
    /\ log[7].op = "selector" /\ log[7].selected # {}

\* C18: after construction and after any RefineUniform, RefineAdaptive or
\* Unrefine on a base level that holds a mesh, maxLevel is the number of
\* levels minus one and the number of refinements, the bound that
\* ComputeMaskWeights indexes the refinements by.  Unrefine drops the levels
\* and the refinements and leaves maxLevel as it was, so this fails.
C18_MaxLevelTracks ==
    (/\ outcome = "ok"
     /\ last.op \in {"RefineUniform", "RefineAdaptive", "Unrefine"}
     /\ Len(levels) >= 1
     /\ getNumVertices(levels[1]) > 0) =>
        /\ maxLevel = Len(levels) - 1
        /\ maxLevel = Len(refinements)

\* C19: in a RefineUniform(depth, fullTopology) that has returned, refine()
\* ran once for each level 1..depth, never sparse, and got faceTopologyOnly
\* set exactly when fullTopology is false and the level is the last one,
\* depth; the refinement keeps the options it was refined with.
C19_UniformOptions ==
    (last.op = "RefineUniform" /\ outcome = "ok") =>
        /\ Len(RefineEvents) = last.arg
        /\ \A k \in 1..Len(RefineEvents) :
              /\ RefineEvents[k].sparse = FALSE
              /\ RefineEvents[k].faceTopologyOnly <=>
                     (~last.flag /\ RefineEvents[k].i = last.arg)
              /\ refinements[k].sparse = FALSE
              /\ refinements[k].faceTopologyOnly =
                     RefineEvents[k].faceTopologyOnly

\* RefineUniform(MaxDepth, false) has returned: its last refine() was given
\* faceTopologyOnly, its first was not.
C19_Witness ==
    /\ last = Call("RefineUniform", MaxDepth, FALSE)
    /\ outcome = "ok"
    /\ Len(RefineEvents) = MaxDepth
    /\ RefineEvents[MaxDepth].faceTopologyOnly
    /\ ~RefineEvents[1].faceTopologyOnly

\* C20: in a RefineAdaptive that has returned, every refine() was sparse
\* and had faceTopologyOnly false, whichever value fullTopology had, and the
\* refinements keep those options; and a RefineAdaptive that follows another
\* of the same depth, whatever the two values of fullTopology, leaves the
\* levels, the refinements, maxLevel and the record of its calls as the
\* first left them.
C20_AdaptiveOptions ==
    /\ []((last.op = "RefineAdaptive" /\ outcome = "ok") =>
             /\ Len(RefineEvents) = maxLevel
             /\ \A k \in 1..Len(RefineEvents) :
                   /\ RefineEvents[k].sparse = TRUE
                   /\ RefineEvents[k].faceTopologyOnly = FALSE
                   /\ refinements[k].sparse = TRUE
                   /\ refinements[k].faceTopologyOnly = FALSE)
    /\ [][(/\ last.op = "RefineAdaptive"
           /\ outcome = "ok"
           /\ last'.op = "RefineAdaptive"
           /\ outcome' = "ok"
           /\ last'.arg = last.arg) =>
              /\ levels' = levels
              /\ refinements' = refinements
              /\ maxLevel' = maxLevel
              /\ isUniform' = isUniform
              /\ log' = log]_vars

\* RefineAdaptive with fullTopology false has refined two levels.
C20_Witness ==
    /\ last.op = "RefineAdaptive"
    /\ last.flag = FALSE
    /\ outcome = "ok"
    /\ Len(RefineEvents) = 2
    /\ refinements[2].sparse = TRUE
    /\ refinements[2].faceTopologyOnly = FALSE

====
